---- MODULE Spec2Model ----
(***************************************************************************)
(* A model of mojadata (moja-global/GCBM.Data): the process-pool tiling     *)
(* orchestrator (gdaltiler2d.py, tiler.py), the resource limits (config.py),*)
(* and the raster helpers (util/gdalhelper.py, layer/rasterlayer.py).       *)
(*                                                                         *)
(* Every subsystem has its own specification over the shared variables;     *)
(* the variables a specification does not use stay at their idle values.    *)
(***************************************************************************)
EXTENDS Integers, Sequences, FiniteSets, TLC

VARIABLES
    \* ---- config.py module globals and the machine they are computed from
    cpu,              \* multiprocessing.cpu_count() of the machine
    config,           \* the five limits of config.py
    lastRefresh,      \* arguments of the last config.refresh call
    \* ---- Tiler / GdalTiler2D object and one tile() call
    pc,               \* position of the caller in Tiler() / tile()
    workers,          \* Tiler._workers
    layers,           \* the layers argument of tile(): sequence of layer names
    uniq,             \* the deduplicated layers (indices into layers)
    poolSize,         \* number of processes of the pool made by _create_pool
    nextDispatch,     \* loop variable i of the apply_async loop
    task,             \* state of the task of each deduplicated layer
    result,           \* the tuple returned by _tile_layer for each task
    dispatched,       \* how many times each task was handed to the pool
    processed,        \* how many times _tile_layer ran for each task
    fate,             \* what happened to the layer inside each task
    metadata,         \* per task: the state of the layer's JSON sidecar file
    cacheMax,         \* the gdal.SetCacheMax value of each task's process
    outqueue,         \* results on their way to the pool's result handler
    skipped_layers,   \* GdalTiler2D._skipped_layers
    log,              \* messages logged by _handle_tile_layer_result
    study_area,       \* the manifest written to study_area.json, or NoManifest
    \* ---- one iteration over GDALHelper.chunk
    chunkArgs,        \* size of the raster and chunk_size
    yielded,          \* the chunks yielded so far
    chunkDone,        \* the generator is exhausted
    \* ---- one call of GDALHelper.calc
    calcArgs,         \* the input rasters, calc_fn and keyword arguments
    calcPc,           \* position inside calc
    calcOut,          \* the raster at output_path
    calcPos,          \* number of chunks calc has written
    calcWrites,       \* how often calc has written each pixel of the output
    \* ---- one call of GDALHelper.best_fit_data_type
    fitArgs,          \* range and allow_float
    fitOut,           \* the data type returned, or NoType
    \* ---- the pixel size RasterLayer._rasterize gives its output
    resCall,          \* the last call and its arguments
    resOut,           \* the requested and the resulting pixel size
    \* ---- the resampling of RasterLayer._rasterize (lines 120-165)
    rsLayer,          \* the layer: its raster, its nodata override, the
                      \* number of source pixels per output pixel side
    rsPc,             \* position inside _rasterize
    rsFlat,           \* the raster at flattened_path
    rsMask,           \* the raster at nodata_mask_path
    rsWarp,           \* the raster at warp_path
    \* ---- one call of GDALHelper.blank_copy
    blankArgs,        \* the source raster, output_path, nodata_value
    blankOut,         \* the raster at output_path and the value returned
    \* ---- one DummyLayer
    dummyArgs,        \* the constructor's and _rasterize's arguments
    dummyLayer,       \* the fields __init__ has set, or NoDummy
    dummyOut,         \* the raster _rasterize has written, or NoRaster
    \* ---- the output stage of RasterLayer._rasterize (lines 167-194)
    outArgs,          \* the constructor's and _rasterize's arguments
    outLayer,         \* the fields of the layer, or NoLayer
    outWarp,          \* what gdal.Warp (lines 182-189) was given and wrote
    outRaster         \* the raster at output_path

configVars == <<cpu, config, lastRefresh>>
tileVars   == <<pc, workers, layers, uniq, poolSize, nextDispatch, task,
                result, dispatched, processed, fate, metadata, cacheMax,
                outqueue, skipped_layers, log, study_area>>
chunkVars  == <<chunkArgs, yielded, chunkDone>>
calcVars   == <<calcArgs, calcPc, calcOut, calcPos, calcWrites>>
fitVars    == <<fitArgs, fitOut>>
resVars    == <<resCall, resOut>>
rsVars     == <<rsLayer, rsPc, rsFlat, rsMask, rsWarp>>
blankVars  == <<blankArgs, blankOut>>
dummyVars  == <<dummyArgs, dummyLayer, dummyOut>>
outVars    == <<outArgs, outLayer, outWarp, outRaster>>
layerVars  == <<blankVars, dummyVars, outVars>>
vars       == <<configVars, tileVars, chunkVars, calcVars, fitVars, resVars,
                rsVars, layerVars>>

-----------------------------------------------------------------------------
(* Bounds of the model *)
MaxCpu     == 5     \* cpu_count() ranges over 1..MaxCpu
MaxMem     == 12    \* memory sizes (in units of memory) range over 0..MaxMem
MaxPool    == 5     \* pool sizes passed to refresh range over 1..MaxPool
MaxLayers  == 3     \* tile() gets at most MaxLayers layers
MaxWorkers == 2     \* Tiler(workers=...) ranges over 1..MaxWorkers
MaxTileCpu == 3     \* cpu_count() of the machines tile() is run on
TileMem    == 8     \* the available memory of the machines tile() is run on
MaxSide    == 4     \* rasters given to chunk are at most MaxSide x MaxSide
MaxChunk   == 3     \* chunk_size ranges over 1..MaxChunk
MaxCalcSide == 3    \* rasters given to calc are at most MaxCalcSide a side
MaxPixel   == 6     \* pixel sizes range over 1..MaxPixel units of length
MaxBlock   == 5     \* block extents range over 1..MaxBlock units of length
MaxSrcWidth  == 5   \* rasters to resample are at most MaxSrcWidth wide,
MaxSrcPixels == 5   \* two rows high and have at most MaxSrcPixels pixels
MaxFactor  == 5     \* an output pixel is at most MaxFactor source pixels a side
ModelChunkSize == 2 \* the default chunk_size, scaled down to the model's rasters

None == -1          \* Python's None for the optional integer arguments

Min(a, b) == IF a < b THEN a ELSE b

\* Python truth value of an optional integer: None and 0 are false.
Truthy(x) == x # None /\ x # 0

-----------------------------------------------------------------------------
(* config.py *)

\* int(psutil.virtual_memory().available * 0.75)
DefaultTilerMemory(avail) == (avail * 3) \div 4

\* config.py module level, lines 7-12.
ModuleLoad(cpus, avail) ==
    LET threads == Min(cpus, 4)
        pool    == cpus
        tiler   == DefaultTilerMemory(avail)
        process == tiler \div pool
    IN  [GDAL_THREADS         |-> threads,
         PROCESS_POOL_SIZE    |-> pool,
         TILER_MEMORY_LIMIT   |-> tiler,
         PROCESS_MEMORY_LIMIT |-> process,
         GDAL_MEMORY_LIMIT    |-> process \div threads]

\* total_mem_bytes or (psutil.virtual_memory().available * 0.75): Python's
\* "or" takes the right operand when the left one is None or 0.
TilerMemory(total_mem_bytes, avail) ==
    IF total_mem_bytes = None \/ total_mem_bytes = 0
    THEN DefaultTilerMemory(avail)
    ELSE total_mem_bytes

\* refresh with the GDAL limit taken from the tiler's limit instead of the
\* process's.
refresh_gdal_limit_of_tiler(old, cpus, pool_size, total_mem_bytes, avail) ==
    LET size    == IF pool_size = None THEN cpus ELSE pool_size
        threads == Min(size, 4)
        tiler   == TilerMemory(total_mem_bytes, avail)
    IN  IF size = 0
        THEN [raised |-> TRUE,
              cfg |-> [old EXCEPT !.GDAL_THREADS = threads,
                                  !.PROCESS_POOL_SIZE = size,
                                  !.TILER_MEMORY_LIMIT = tiler]]
        ELSE [raised |-> FALSE,
              cfg |-> [GDAL_THREADS         |-> threads,
                       PROCESS_POOL_SIZE    |-> size,
                       TILER_MEMORY_LIMIT   |-> tiler,
                       PROCESS_MEMORY_LIMIT |-> tiler \div size,
                       GDAL_MEMORY_LIMIT    |-> tiler \div threads]]

\* config.refresh(pool_size, total_mem_bytes), lines 30-72.  The result is
\* the new value of the globals and whether the call raised: with a pool size
\* of 0 the division of line 63 raises ZeroDivisionError after lines 60-62
\* have assigned GDAL_THREADS, PROCESS_POOL_SIZE and TILER_MEMORY_LIMIT.
refresh(old, cpus, pool_size, total_mem_bytes, avail) ==
    LET size    == IF pool_size = None THEN cpus ELSE pool_size
        threads == Min(size, 4)
        tiler   == TilerMemory(total_mem_bytes, avail)
    IN  IF size = 0
        THEN [raised |-> TRUE,
              cfg |-> [old EXCEPT !.GDAL_THREADS = threads,
                                  !.PROCESS_POOL_SIZE = size,
                                  !.TILER_MEMORY_LIMIT = tiler]]
        ELSE [raised |-> FALSE,
              cfg |-> [GDAL_THREADS         |-> threads,
                       PROCESS_POOL_SIZE    |-> size,
                       TILER_MEMORY_LIMIT   |-> tiler,
                       PROCESS_MEMORY_LIMIT |-> tiler \div size,
                       GDAL_MEMORY_LIMIT    |-> (tiler \div size) \div threads]]

NoRefresh == [pool_size |-> None, total_mem_bytes |-> None, called |-> FALSE]

\* The state of the limits at module load on a machine with one of the given
\* numbers of processors and amounts of available memory.
ConfigLoaded(cpus, avails) ==
    /\ cpu \in cpus
    /\ \E avail \in avails : config = ModuleLoad(cpu, avail)
    /\ lastRefresh = NoRefresh

\* A call of config.refresh from outside the package.
Refresh(pool_size, total_mem_bytes, avail) ==
    /\ config' = refresh(config, cpu, pool_size, total_mem_bytes, avail).cfg
    /\ lastRefresh' = [pool_size |-> pool_size,
                       total_mem_bytes |-> total_mem_bytes, called |-> TRUE]
    /\ UNCHANGED cpu


-----------------------------------------------------------------------------
(* util/gdalhelper.py: rasters, chunk, read_chunked, blank_copy, calc *)

\* A raster is its size, its band's nodata value (or None) and its pixels,
\* a function of <<x, y>> with 0 <= x < width and 0 <= y < height.
Pixels(width, height) == (0..(width - 1)) \X (0..(height - 1))
NoRaster == [width |-> 0, height |-> 0, nodata |-> None, px |-> <<>>]

\* list(range(0, stop, step))
Range(stop, step) == [k \in 1..((stop + step - 1) \div step) |-> (k - 1) * step]

\* [x - 1 for x in (starts[1:] + [size])] that forgets the "- 1".
chunk_ends_inclusive(starts, size) ==
    LET nexts == SubSeq(starts, 2, Len(starts)) \o <<size>>
    IN  [k \in 1..Len(nexts) |-> nexts[k]]

\* [x - 1 for x in (starts[1:] + [size])], lines 111 and 115
chunk_ends(starts, size) ==
    LET nexts == SubSeq(starts, 2, Len(starts)) \o <<size>>
    IN  [k \in 1..Len(nexts) |-> nexts[k] - 1]

\* list(zip(a, b))
Zip(a, b) == [k \in 1..Min(Len(a), Len(b)) |-> <<a[k], b[k]>>]

\* GDALHelper.chunk for a raster of the given size: the chunks
\* (x_px_start, y_px_start, x_size, y_size) in the order they are yielded.
chunk(width, height, chunk_size) ==
    LET y_chunk_starts == Range(height, chunk_size)
        y_chunks == Zip(y_chunk_starts, chunk_ends(y_chunk_starts, height))
        x_chunk_starts == Range(width, chunk_size)
        x_chunks == Zip(x_chunk_starts, chunk_ends(x_chunk_starts, width))
        nx == Len(x_chunks)
    IN  [k \in 1..(Len(y_chunks) * nx) |->
            LET yc == y_chunks[((k - 1) \div nx) + 1]
                xc == x_chunks[((k - 1) % nx) + 1]
            IN  <<xc[1], yc[1], xc[2] - xc[1] + 1, yc[2] - yc[1] + 1>>]

ChunkIdle ==
    /\ chunkArgs = [width |-> 0, height |-> 0, chunk_size |-> 1]
    /\ yielded = <<>>
    /\ chunkDone = FALSE

\* The generator yields its next chunk.
ChunkYield ==
    LET all == chunk(chunkArgs.width, chunkArgs.height, chunkArgs.chunk_size)
    IN  /\ ~chunkDone
        /\ Len(yielded) < Len(all)
        /\ yielded' = Append(yielded, all[Len(yielded) + 1])
        /\ UNCHANGED <<chunkArgs, chunkDone>>

\* The generator is exhausted.
ChunkStop ==
    LET all == chunk(chunkArgs.width, chunkArgs.height, chunkArgs.chunk_size)
    IN  /\ ~chunkDone
        /\ Len(yielded) = Len(all)
        /\ chunkDone' = TRUE
        /\ UNCHANGED <<chunkArgs, yielded>>

\* band.ReadAsArray(x, y, x_size, y_size): the array of the chunk, indexed
\* from <<0, 0>>.
ReadAsArray(raster, c) ==
    [q \in Pixels(c[3], c[4]) |-> raster.px[<<c[1] + q[1], c[2] + q[2]>>]]

\* band.WriteArray(array, xoff, yoff) for an array of x_size by y_size.
WriteArray(raster, array, x_size, y_size, xoff, yoff) ==
    [raster EXCEPT !.px =
        [p \in DOMAIN raster.px |->
            IF /\ xoff <= p[1] /\ p[1] < xoff + x_size
               /\ yoff <= p[2] /\ p[2] < yoff + y_size
            THEN array[<<p[1] - xoff, p[2] - yoff>>]
            ELSE raster.px[p]]]

RECURSIVE fill_chunks(_, _, _, _)
\* The loop of lines 93-95: every chunk from the k-th on is filled with value.
fill_chunks(raster, chunks, k, value) ==
    IF k > Len(chunks) THEN raster
    ELSE LET c == chunks[k]
         IN  fill_chunks(
                 WriteArray(raster, [q \in Pixels(c[3], c[4]) |-> value],
                            c[3], c[4], c[1], c[2]),
                 chunks, k + 1, value)

\* blank_copy choosing its nodata value with "nodata_value or ...", which
\* takes a nodata_value of 0 for one that was not given.
blank_copy_falsy_nodata(source, nodata_value, chunk_size) ==
    LET nodata == IF Truthy(nodata_value) THEN nodata_value ELSE source.nodata
        copy   == [source EXCEPT !.nodata = nodata]
    IN  IF nodata = None
        THEN [raised |-> TRUE, raster |-> source, returned |-> None]
        ELSE [raised |-> FALSE,
              raster |-> fill_chunks(copy,
                             chunk(source.width, source.height, chunk_size),
                             1, nodata),
              returned |-> None]

\* GDALHelper.blank_copy(path, output_path, nodata_value=...): the raster at
\* output_path and the value returned.  The copy of the source is given the
\* nodata value (the argument, or the source's when the argument is None) and
\* every chunk is filled with it; setting a nodata value of None raises.
blank_copy(source, nodata_value, chunk_size) ==
    LET nodata == IF nodata_value # None THEN nodata_value ELSE source.nodata
        copy   == [source EXCEPT !.nodata = nodata]
    IN  IF nodata = None
        THEN [raised |-> TRUE, raster |-> source, returned |-> None]
        ELSE [raised |-> FALSE,
              raster |-> fill_chunks(copy,
                             chunk(source.width, source.height, chunk_size),
                             1, nodata),
              returned |-> None]

\* The calc_fn functions of RasterLayer._rasterize, applied to one pixel of
\* the data read_chunked hands over (one value for a single path, a list of
\* values in the order of the paths otherwise).
\*    "flatten": lambda d: d != original_nodata          (line 128)
\*    "mask":    lambda d: np.where(d[1] == 0, original_nodata, d[0])
\*                                                        (line 162)
\*    "drop_nulls": lambda d: np.where(np.isin(d, keep_values), d,
\*                                     self._nodata_value)   (line 205)
calc_fn(fn, d) ==
    IF fn.name = "flatten"
    THEN (IF d # fn.original_nodata THEN 1 ELSE 0)
    ELSE IF fn.name = "mask"
    THEN (IF d[2] = 0 THEN fn.original_nodata ELSE d[1])
    ELSE (IF d \in fn.keep_values THEN d ELSE fn.nodata_value)

\* What read_chunked yields for one chunk: the chunk's array of the only
\* band, or the list of the chunk's arrays of all bands (lines 141-145).
read_chunk(paths, c) ==
    IF Len(paths) = 1
    THEN ReadAsArray(paths[1], c)
    ELSE [q \in Pixels(c[3], c[4]) |->
             [i \in DOMAIN paths |-> ReadAsArray(paths[i], c)[q]]]

\* One turn of calc's loop that writes every result at the raster's origin.
calc_chunk_at_origin(out, paths, fn, c) ==
    LET data == read_chunk(paths, c)
    IN  WriteArray(out, [q \in DOMAIN data |-> calc_fn(fn, data[q])],
                   c[3], c[4], 0, 0)

\* One turn of the loop of lines 166-167:
\* band.WriteArray(calc_fn(data), *chunk[:2])
calc_chunk(out, paths, fn, c) ==
    LET data == read_chunk(paths, c)
    IN  WriteArray(out, [q \in DOMAIN data |-> calc_fn(fn, data[q])],
                   c[3], c[4], c[1], c[2])

RECURSIVE calc_chunks(_, _, _, _, _)
\* The loop of lines 166-167 from the k-th chunk on.
calc_chunks(out, paths, fn, chunks, k) ==
    IF k > Len(chunks) THEN out
    ELSE calc_chunks(calc_chunk(out, paths, fn, chunks[k]), paths, fn,
                     chunks, k + 1)

\* GDALHelper.calc(paths, output_path, calc_fn, nodata_value=...): the raster
\* at output_path, or raised when blank_copy raises.
calc(paths, fn, nodata_value, chunk_size) ==
    LET blank == blank_copy(paths[1], nodata_value, chunk_size)
    IN  IF blank.raised
        THEN [raised |-> TRUE, raster |-> NoRaster]
        ELSE [raised |-> FALSE,
              raster |-> calc_chunks(blank.raster, paths, fn,
                             chunk(paths[1].width, paths[1].height, chunk_size),
                             1)]

NoCalc == [paths |-> <<>>, fn |-> [name |-> "flatten", original_nodata |-> 0],
           nodata_value |-> None, chunk_size |-> 1]

CalcIdle ==
    /\ calcArgs = NoCalc
    /\ calcPc = "idle"
    /\ calcOut = NoRaster
    /\ calcPos = 0
    /\ calcWrites = <<>>

\* A number that is an integer n, or n + 1/2 when half is true.
Number(n, half) == [n |-> n, half |-> half]
IsInteger(x) == ~x.half                       \* float(x).is_integer()
GreaterEq(x, k) == x.n >= k                   \* x >= k for an integer k
LessEq(x, k) == IF x.half THEN x.n < k ELSE x.n <= k     \* x <= k

\* The value ranges of lines 9-12.  (uint32_range, line 13, is read only by
\* best_nodata_value.)
byte_range   == <<0, 255>>
int16_range  == <<-32768, 32767>>
uint16_range == <<0, 65535>>
int32_range  == <<(-2147483647) - 1, 2147483647>>

\* GDALHelper.best_fit_data_type(range, allow_float), lines 32-37
best_fit_data_type(range, allow_float) ==
    IF allow_float /\ ~(IsInteger(range[1]) /\ IsInteger(range[2]))
    THEN "Float32"
    ELSE IF GreaterEq(range[1], byte_range[1])
            /\ LessEq(range[2], byte_range[2] - 1)
    THEN "Byte"
    ELSE IF GreaterEq(range[1], int16_range[1])
            /\ LessEq(range[2], int16_range[2] - 1)
    THEN "Int16"
    ELSE IF GreaterEq(range[1], uint16_range[1])
            /\ LessEq(range[2], uint16_range[2] - 1)
    THEN "UInt16"
    ELSE IF GreaterEq(range[1], int32_range[1])
            /\ LessEq(range[2], int32_range[2] - 1)
    THEN "Int32"
    ELSE "UInt32"

NoType == "none"

FitIdle ==
    /\ fitArgs = [range |-> <<Number(0, FALSE), Number(0, FALSE)>>,
                  allow_float |-> TRUE]
    /\ fitOut = NoType

\* A call of best_fit_data_type.
BestFit ==
    /\ fitOut = NoType
    /\ fitOut' = best_fit_data_type(fitArgs.range, fitArgs.allow_float)
    /\ UNCHANGED fitArgs

\* round(a / b) of Python 3 for positive integers a and b: to the nearest
\* integer, a tie to the even one.
PyRound(a, b) ==
    LET q == a \div b
        r == a % b
    IN  IF 2 * r < b THEN q
        ELSE IF 2 * r > b THEN q + 1
        ELSE IF q % 2 = 0 THEN q ELSE q + 1

\* _get_nearest_divisible_resolution with the comparison of its cap turned
\* around.
get_nearest_divisible_resolution_flipped_cap(srs, min_pixel_size, requested_pixel_size, block_extent) ==
    IF srs # 4326 THEN requested_pixel_size
    ELSE LET nearest_block_divisible_size ==
                 IF requested_pixel_size > min_pixel_size
                 THEN min_pixel_size
                          * PyRound(min_pixel_size, requested_pixel_size)
                 ELSE min_pixel_size
         IN  IF nearest_block_divisible_size > block_extent
             THEN nearest_block_divisible_size
             ELSE block_extent

\* RasterLayer._get_nearest_divisible_resolution, lines 208-219
get_nearest_divisible_resolution(srs, min_pixel_size, requested_pixel_size, block_extent) ==
    IF srs # 4326 THEN requested_pixel_size
    ELSE LET nearest_block_divisible_size ==
                 IF requested_pixel_size > min_pixel_size
                 THEN min_pixel_size
                          * PyRound(min_pixel_size, requested_pixel_size)
                 ELSE min_pixel_size
         IN  IF nearest_block_divisible_size < block_extent
             THEN nearest_block_divisible_size
             ELSE block_extent

\* Lines 177-180 of RasterLayer._rasterize: the pixel size of the output.
\* Without a requested pixel size the pixel size of the warped raster is
\* used, which lines 137-138 and 150-151 made min_pixel_size.
rasterize_pixel_size(srs, min_pixel_size, block_extent, requested_pixel_size) ==
    IF Truthy(requested_pixel_size)
    THEN get_nearest_divisible_resolution(
             srs, min_pixel_size, requested_pixel_size, block_extent)
    ELSE get_nearest_divisible_resolution(
             srs, min_pixel_size, min_pixel_size, block_extent)

\* Line 132 of _tile_layer: the requested pixel size handed to bbox.normalize.
tile_layer_requested(use_bbox_res, pixel_size) ==
    IF use_bbox_res THEN pixel_size ELSE None

\* BoundingBox.normalize(layer, block_extent, requested_pixel_size): the
\* layer is rasterized in the bounding box's SRS with the bounding box's
\* pixel size as min_pixel_size; the result is the output's pixel size.
normalize(bbox, block_extent, requested_pixel_size) ==
    rasterize_pixel_size(bbox.srs, bbox.pixel_size, block_extent,
                         requested_pixel_size)

SRSs == {4326, 3857}        \* EPSG codes: WGS84 and one projected SRS
NoResolution == [requested |-> None, pixel_size |-> None]

ResIdle ==
    /\ resCall = [kind |-> "none"]
    /\ resOut = NoResolution

\* A call of _get_nearest_divisible_resolution.
NearestDivisibleResolution(srs, min_pixel_size, requested_pixel_size, block_extent) ==
    /\ resCall' = [kind |-> "nearest", srs |-> srs,
                   min_pixel_size |-> min_pixel_size,
                   requested_pixel_size |-> requested_pixel_size,
                   block_extent |-> block_extent]
    /\ resOut' = [requested |-> requested_pixel_size,
                  pixel_size |-> get_nearest_divisible_resolution(
                      srs, min_pixel_size, requested_pixel_size, block_extent)]

\* Lines 129-132 of _tile_layer for a RasterLayer: the layer is normalized to
\* the bounding box.
TileLayerNormalize(bbox, block_extent, use_bbox_res) ==
    LET requested == tile_layer_requested(use_bbox_res, bbox.pixel_size)
    IN  /\ resCall' = [kind |-> "tile", bbox |-> bbox,
                       block_extent |-> block_extent,
                       use_bbox_res |-> use_bbox_res]
        /\ resOut' = [requested |-> requested,
                      pixel_size |-> normalize(bbox, block_extent, requested)]

\* The source pixels that make up output pixel P when an output pixel is
\* factor source pixels a side.
Contributing(raster, factor, P) ==
    {p \in Pixels(raster.width, raster.height) :
        p[1] \div factor = P[1] /\ p[2] \div factor = P[2]}

\* The values that occur most often among the pixels ps of the raster: what
\* resampleAlg="mode" can choose.
Modes(raster, ps) ==
    LET Count(v) == Cardinality({p \in ps : raster.px[p] = v})
    IN  {raster.px[p] : p \in {q \in ps :
            \A r \in ps : Count(raster.px[r]) <= Count(raster.px[q])}}

\* gdal.Warp(resampleAlg="mode", srcNodata=src_nodata) to pixels that are
\* factor source pixels a side: the rasters the warp can produce.  The source
\* pixels equal to src_nodata are left out of the vote (none is left out when
\* src_nodata is None); an output pixel without a vote is src_nodata; among
\* several most frequent values GDAL is free to choose.
warp_mode(raster, factor, src_nodata) ==
    LET width  == (raster.width + factor - 1) \div factor
        height == (raster.height + factor - 1) \div factor
        Valid(P) == {p \in Contributing(raster, factor, P) :
                        src_nodata = None \/ raster.px[p] # src_nodata}
        Choice(P) == IF Valid(P) = {} THEN {src_nodata}
                     ELSE Modes(raster, Valid(P))
    IN  {[width |-> width, height |-> height, nodata |-> src_nodata,
          px |-> f] :
            f \in {g \in [Pixels(width, height) ->
                              UNION {Choice(P) : P \in Pixels(width, height)}] :
                      \A P \in Pixels(width, height) : g[P] \in Choice(P)}}

\* The warp of the flattened raster that leaves the raster's nodata value, 0,
\* out of the vote.
warp_mask_without_nodata(flattened, factor) ==
    warp_mode(flattened, factor, flattened.nodata)

\* Lines 131-142: the data/nodata mask, a mode resample of the flattened
\* raster with srcNodata="None".
warp_mask(flattened, factor) == warp_mode(flattened, factor, None)

\* Lines 120-122: the nodata value of the layer's raster, or else the nodata
\* value given to the layer.
original_nodata(layer) ==
    IF layer.raster.nodata # None THEN layer.raster.nodata
    ELSE layer.nodata_value

RsIdle ==
    /\ rsLayer = [raster |-> NoRaster, nodata_value |-> None, factor |-> 1]
    /\ rsPc = "idle"
    /\ rsFlat = NoRaster
    /\ rsMask = NoRaster
    /\ rsWarp = NoRaster

\* Lines 125-129: the layer has a nodata value and is flattened with calc.
RasterizeFlatten ==
    /\ rsPc = "start"
    /\ original_nodata(rsLayer) # None
    /\ rsFlat' = calc(<<rsLayer.raster>>,
                      [name |-> "flatten",
                       original_nodata |-> original_nodata(rsLayer)],
                      0, ModelChunkSize).raster
    /\ rsPc' = "flattened"
    /\ UNCHANGED <<rsLayer, rsMask, rsWarp>>

\* Lines 131-142: the flattened raster is resampled into the mask.
RasterizeWarpMask ==
    /\ rsPc = "flattened"
    /\ rsMask' \in warp_mask(rsFlat, rsLayer.factor)
    /\ rsPc' = "mask"
    /\ UNCHANGED <<rsLayer, rsFlat, rsWarp>>

\* Lines 144-155: the layer's raster is resampled, its nodata left out.
RasterizeWarp ==
    /\ \/ rsPc = "mask"
       \/ rsPc = "start" /\ original_nodata(rsLayer) = None
    /\ rsWarp' \in warp_mode(rsLayer.raster, rsLayer.factor,
                             original_nodata(rsLayer))
    /\ rsPc' = IF rsPc = "mask" THEN "warped" ELSE "done"
    /\ UNCHANGED <<rsLayer, rsFlat, rsMask>>

\* Lines 157-165: the mask is applied with calc; warp_path becomes the
\* masked raster.
RasterizeMask ==
    /\ rsPc = "warped"
    /\ rsWarp' = calc(<<rsWarp, rsMask>>,
                      [name |-> "mask",
                       original_nodata |-> original_nodata(rsLayer)],
                      original_nodata(rsLayer), ModelChunkSize).raster
    /\ rsPc' = "done"
    /\ UNCHANGED <<rsLayer, rsFlat, rsMask>>

\* The maxima of uint32_range and float32_range (lines 13-14), 2^32 - 1 and
\* 3.4E+38, are beyond the integers of the model; each is stood for by a
\* number of its own that is no pixel value, no nodata value given to a
\* layer and no maximum of another type.  Only equality is asked of them.
uint32_max  == -2
float32_max == -3

\* Python's None among the data types, and gdal.GDT_Unknown (0, falsy).
NoneType    == "None"
GDT_Unknown == "Unknown"
DataTypes   == {"Byte", "Int16", "UInt16", "Int32", "UInt32", "Float32"}

\* GDALHelper.best_nodata_value(data_type): the maximum of the type's range.
best_nodata_value(data_type) ==
    IF data_type = "Byte" THEN byte_range[2]
    ELSE IF data_type = "Int16" THEN int16_range[2]
    ELSE IF data_type = "UInt16" THEN uint16_range[2]
    ELSE IF data_type = "Int32" THEN int32_range[2]
    ELSE IF data_type = "UInt32" THEN uint32_max
    ELSE IF data_type = "Float32" THEN float32_max
    ELSE -1

-----------------------------------------------------------------------------
(* layer/dummylayer.py *)

\* DummyLayer.__init__(name, value, nodata_value, data_type): the fields the
\* raster depends on.
\*    self._data_type = data_type or gdal.GDT_Byte
\*    self._nodata_value = nodata_value or GDALHelper.best_nodata_value(...)
DummyLayer(value, nodata_value, data_type) ==
    LET type == IF data_type \in {NoneType, GDT_Unknown} THEN "Byte"
                ELSE data_type
    IN  [constructed |-> TRUE,
         _data_type |-> type,
         _nodata_value |-> IF Truthy(nodata_value) THEN nodata_value
                           ELSE best_nodata_value(type),
         _attribute_table |-> [k \in {1} |-> <<value>>]]

NoDummy == [constructed |-> FALSE, _data_type |-> NoneType,
            _nodata_value |-> None, _attribute_table |-> <<>>]

\* DummyLayer._rasterize(srs, min_pixel_size, block_extent,
\* requested_pixel_size, bounds=bounds): the raster created at output_path,
\* of the layer's data type and nodata value, with every pixel 1.
dummy_rasterize(layer, min_pixel_size, requested_pixel_size, bounds) ==
    LET pixel_size == IF Truthy(requested_pixel_size) THEN requested_pixel_size
                      ELSE min_pixel_size
        ulx == bounds[1]
        lry == bounds[2]
        lrx == bounds[3]
        uly == bounds[4]
        width_px  == (IF lrx >= ulx THEN lrx - ulx ELSE ulx - lrx) \div pixel_size
        height_px == (IF lry >= uly THEN lry - uly ELSE uly - lry) \div pixel_size
    IN  [width |-> width_px, height |-> height_px,
         nodata |-> layer._nodata_value,
         px |-> [p \in Pixels(width_px, height_px) |-> 1]]

DummyIdle ==
    /\ dummyArgs = [value |-> 0, nodata_value |-> None, data_type |-> NoneType,
                    min_pixel_size |-> 1, requested_pixel_size |-> None,
                    bounds |-> <<0, 0, 0, 0>>]
    /\ dummyLayer = NoDummy
    /\ dummyOut = NoRaster

\* The layer is constructed.
DummyInit ==
    /\ ~dummyLayer.constructed
    /\ dummyLayer' = DummyLayer(dummyArgs.value, dummyArgs.nodata_value,
                                dummyArgs.data_type)
    /\ UNCHANGED <<dummyArgs, dummyOut>>

\* _rasterize is called on the layer.
DummyRasterize ==
    /\ dummyLayer.constructed
    /\ dummyOut = NoRaster
    /\ dummyOut' = dummy_rasterize(dummyLayer, dummyArgs.min_pixel_size,
                                   dummyArgs.requested_pixel_size,
                                   dummyArgs.bounds)
    /\ UNCHANGED <<dummyArgs, dummyLayer>>

-----------------------------------------------------------------------------
\* blank_copy has not been called.
NoBlank == [called |-> FALSE, raised |-> FALSE, raster |-> NoRaster,
            returned |-> None]

BlankIdle ==
    /\ blankArgs = [path |-> NoRaster, output_path |-> 0,
                    nodata_value |-> None, chunk_size |-> 1]
    /\ blankOut = NoBlank

\* GDALHelper.blank_copy(path, output_path, nodata_value=nodata_value) is
\* called and returns or raises.  Files are named by positive numbers.
BlankCopy ==
    /\ ~blankOut.called
    /\ LET blank == blank_copy(blankArgs.path, blankArgs.nodata_value,
                               blankArgs.chunk_size)
       IN  blankOut' = [called |-> TRUE, raised |-> blank.raised,
                        raster |-> blank.raster, returned |-> blank.returned]
    /\ UNCHANGED blankArgs

(* layer/rasterlayer.py: the constructor and lines 167-206 *)

\* An attribute table is a function from pixel values to rows, a row a list
\* of attribute values with "" for an empty one.  None and {} are both the
\* table without keys.
NoTable == <<>>

\* ValidationHelper.no_empty_values(v): no value of the row is empty.
no_empty_values(v) == \A i \in DOMAIN v : v[i] # ""

\* RasterLayer.__init__: the fields the output stage reads (lines 51-59).
RasterLayer(attribute_table, nodata_value, data_type, allow_nulls) ==
    [constructed |-> TRUE,
     _nodata_value |-> nodata_value,
     _data_type |-> data_type,
     _allow_nulls |-> allow_nulls,
     _attribute_table |->
         IF allow_nulls THEN attribute_table
         ELSE IF DOMAIN attribute_table # {}
         THEN [k \in {j \in DOMAIN attribute_table :
                         no_empty_values(attribute_table[j])} |->
                  attribute_table[k]]
         ELSE NoTable]

NoLayer == [constructed |-> FALSE, _nodata_value |-> None,
            _data_type |-> NoneType, _allow_nulls |-> FALSE,
            _attribute_table |-> NoTable]

RECURSIVE SetMin(_)
SetMin(S) == LET x == CHOOSE y \in S : TRUE
             IN  IF S = {x} THEN x ELSE Min(x, SetMin(S \ {x}))
SetMax(S) == -SetMin({-x : x \in S})

\* RasterLayer.get_min_max(raster_path): the smallest and the largest of the
\* pixels that are not nodata, or (0, 0) when GDAL computes none.
get_min_max(raster) ==
    LET data == {raster.px[p] : p \in DOMAIN raster.px} \ {raster.nodata}
    IN  IF data = {} THEN <<0, 0>> ELSE <<SetMin(data), SetMax(data)>>

\* Lines 169-172 with the layer's own type named first.
output_type_override_first(data_type, layer, is_float, warp) ==
    IF layer._data_type # NoneType THEN layer._data_type
    ELSE IF data_type # NoneType THEN data_type
    ELSE IF is_float THEN "Float32"
    ELSE LET min_max == get_min_max(warp)
         IN  best_fit_data_type(<<Number(min_max[1], FALSE),
                                  Number(min_max[2], FALSE)>>, TRUE)

\* Lines 169-172: the output type of _rasterize.
output_type(data_type, layer, is_float, warp) ==
    IF data_type # NoneType THEN data_type
    ELSE IF layer._data_type # NoneType THEN layer._data_type
    ELSE IF is_float THEN "Float32"
    ELSE LET min_max == get_min_max(warp)
         IN  best_fit_data_type(<<Number(min_max[1], FALSE),
                                  Number(min_max[2], FALSE)>>, TRUE)

\* Lines 174-175: the layer's nodata value once the output type is known.
output_nodata(layer, type) ==
    IF layer._nodata_value = None THEN best_nodata_value(type)
    ELSE layer._nodata_value

\* gdal.Warp(output_path, warp_path, outputType=..., dstNodata=...) of lines
\* 182-189 at the resolution of warp_path: the pixels that are nodata in the
\* source are the destination's nodata value, the others keep their value.
warp_output(warp, dstNodata) ==
    [warp EXCEPT !.nodata = dstNodata,
                 !.px = [p \in DOMAIN warp.px |->
                            IF warp.nodata # None /\ warp.px[p] = warp.nodata
                            THEN dstNodata ELSE warp.px[p]]]

\* RasterLayer._drop_nulls(path): the raster at path afterwards.
drop_nulls(layer, raster) ==
    IF DOMAIN layer._attribute_table = {} THEN raster
    ELSE calc(<<raster>>,
              [name |-> "drop_nulls",
               keep_values |-> DOMAIN layer._attribute_table,
               nodata_value |-> layer._nodata_value],
              None, ModelChunkSize).raster

NoWarp == [called |-> FALSE, outputType |-> NoneType, dstNodata |-> None,
           raster |-> NoRaster]

OutIdle ==
    /\ outArgs = [attribute_table |-> NoTable, nodata_value |-> None,
                  layer_data_type |-> NoneType, allow_nulls |-> FALSE,
                  data_type |-> NoneType, source_type |-> "Byte",
                  warp |-> NoRaster]
    /\ outLayer = NoLayer
    /\ outWarp = NoWarp
    /\ outRaster = NoRaster

\* The layer is constructed.
RasterLayerInit ==
    /\ ~outLayer.constructed
    /\ outLayer' = RasterLayer(outArgs.attribute_table, outArgs.nodata_value,
                               outArgs.layer_data_type, outArgs.allow_nulls)
    /\ UNCHANGED <<outArgs, outWarp, outRaster>>

\* Lines 167-194 of _rasterize, from the raster at warp_path on: the output
\* type and nodata value are chosen, gdal.Warp writes the output and
\* _drop_nulls rewrites it.  The layer's type (self.data_type) is the type
\* of its source raster.
RasterizeOutput ==
    /\ outLayer.constructed
    /\ ~outWarp.called
    /\ LET is_float == outArgs.source_type \in {"Float32", "Float64"}
           type     == output_type(outArgs.data_type, outLayer, is_float,
                                   outArgs.warp)
           layer    == [outLayer EXCEPT
                            !._nodata_value = output_nodata(outLayer, type)]
           warped   == warp_output(outArgs.warp, layer._nodata_value)
       IN  /\ outLayer' = layer
           /\ outWarp' = [called |-> TRUE, outputType |-> type,
                          dstNodata |-> layer._nodata_value,
                          raster |-> warped]
           /\ outRaster' = drop_nulls(layer, warped)
    /\ UNCHANGED outArgs

LayersIdle == BlankIdle /\ DummyIdle /\ OutIdle

-----------------------------------------------------------------------------
HelpersIdle ==
    ChunkIdle /\ CalcIdle /\ FitIdle /\ ResIdle /\ RsIdle /\ LayersIdle

\* Line 163 of calc: blank_copy of the first input.
CalcBlankCopy ==
    /\ calcPc = "start"
    /\ LET blank == blank_copy(calcArgs.paths[1], calcArgs.nodata_value,
                               calcArgs.chunk_size)
       IN  /\ calcPc' = IF blank.raised THEN "raised" ELSE "chunks"
           /\ calcOut' = IF blank.raised THEN NoRaster ELSE blank.raster
    /\ UNCHANGED <<calcArgs, calcPos, calcWrites>>

\* One turn of the loop of lines 166-167.
CalcChunk ==
    LET first  == calcArgs.paths[1]
        chunks == chunk(first.width, first.height, calcArgs.chunk_size)
    IN  /\ calcPc = "chunks"
        /\ calcPos < Len(chunks)
        /\ LET c == chunks[calcPos + 1]
           IN  /\ calcOut' = calc_chunk(calcOut, calcArgs.paths, calcArgs.fn, c)
               /\ calcWrites' =
                      [p \in DOMAIN calcWrites |->
                          IF /\ c[1] <= p[1] /\ p[1] < c[1] + c[3]
                             /\ c[2] <= p[2] /\ p[2] < c[2] + c[4]
                          THEN calcWrites[p] + 1 ELSE calcWrites[p]]
        /\ calcPos' = calcPos + 1
        /\ UNCHANGED <<calcArgs, calcPc>>

\* The loop is over and calc returns.
CalcReturn ==
    LET first  == calcArgs.paths[1]
        chunks == chunk(first.width, first.height, calcArgs.chunk_size)
    IN  /\ calcPc = "chunks"
        /\ calcPos = Len(chunks)
        /\ calcPc' = "done"
        /\ UNCHANGED <<calcArgs, calcOut, calcPos, calcWrites>>

-----------------------------------------------------------------------------
(* tiler.py and gdaltiler2d.py *)

Names == {"a", "b"}                    \* layer names
NoManifest == [written |-> FALSE, layers |-> <<>>]

\* A Tiler that has not been constructed.
TileIdle ==
    /\ pc = "module"
    /\ workers = None
    /\ layers = <<>>
    /\ uniq = <<>>
    /\ poolSize = 0
    /\ nextDispatch = 0
    /\ task = <<>>
    /\ result = <<>>
    /\ dispatched = <<>>
    /\ processed = <<>>
    /\ fate = <<>>
    /\ metadata = <<>>
    /\ cacheMax = <<>>
    /\ outqueue = <<>>
    /\ skipped_layers = <<>>
    /\ log = <<>>
    /\ study_area = NoManifest

RECURSIVE remove_duplicates_from(_, _, _, _)
\* The loop of GdalTiler2D._remove_duplicates from position i on, with the
\* unique layers (indices into ls) and the layer names found so far.
remove_duplicates_from(ls, i, unique_layers, layer_names) ==
    IF i > Len(ls) THEN unique_layers
    ELSE IF ls[i] \in layer_names
         THEN remove_duplicates_from(ls, i + 1, unique_layers, layer_names)
         ELSE remove_duplicates_from(ls, i + 1, Append(unique_layers, i),
                                     layer_names \cup {ls[i]})

\* GdalTiler2D._remove_duplicates
remove_duplicates(ls) == remove_duplicates_from(ls, 1, <<>>, {})

\* What can happen to a layer inside _tile_layer.
Outcomes == {"ok", "empty", "is_empty_raised", "normalize_raised",
             "normalize_none", "normalized_empty", "write_metadata_raised"}
Raised == {"is_empty_raised", "normalize_raised", "write_metadata_raised"}
\* Outcomes in which bbox.normalize returned, so that its messages are kept.
Normalized == {"ok", "normalize_none", "normalized_empty",
               "write_metadata_raised"}
\* The messages bbox.normalize can hand back (by level).
LayerMessages == {<<>>, <<"WARNING">>}

\* _tile_layer whose except clause reports nothing and lets the task count as
\* a success.
tile_layer_swallowing(layer_name, outcome, layer_messages) ==
    LET start == <<"INFO">>
        norm  == IF outcome \in Normalized THEN layer_messages ELSE <<>>
    IN  IF outcome = "empty"
        THEN [layer_name |-> layer_name, success |-> FALSE,
              messages |-> start \o <<"WARNING">>]
        ELSE IF outcome \in {"normalize_none", "normalized_empty"}
        THEN [layer_name |-> layer_name, success |-> FALSE,
              messages |-> start \o norm \o <<"WARNING">>]
        ELSE [layer_name |-> layer_name, success |-> TRUE,
              messages |-> start \o norm]

\* _tile_layer(layer_idx) for a layer of the given name: the returned tuple
\* (layer_name, success, messages), messages given by their level.  The
\* calls that can fail are layer.is_empty, bbox.normalize and _write_metadata;
\* layers[layer_idx] and layer.name (lines 121-122) are plain reads, so the
\* name is known whenever the except clause runs.
tile_layer(layer_name, outcome, layer_messages) ==
    LET start == <<"INFO">>
        norm  == IF outcome \in Normalized THEN layer_messages ELSE <<>>
    IN  IF outcome = "empty"
        THEN [layer_name |-> layer_name, success |-> FALSE,
              messages |-> start \o <<"WARNING">>]
        ELSE IF outcome \in {"normalize_none", "normalized_empty"}
        THEN [layer_name |-> layer_name, success |-> FALSE,
              messages |-> start \o norm \o <<"WARNING">>]
        ELSE IF outcome \in Raised
        THEN [layer_name |-> layer_name, success |-> FALSE,
              messages |-> start \o norm \o <<"ERROR", "DEBUG">>]
        ELSE [layer_name |-> layer_name, success |-> TRUE,
              messages |-> start \o norm]

\* _write_metadata called before the layer is looked at a second time
\* (line 136).
write_metadata_before_check(outcome) ==
    IF outcome \in {"ok", "normalized_empty"} THEN {"written"}
    ELSE IF outcome = "write_metadata_raised" THEN {"none", "incomplete"}
    ELSE {"none"}

\* The states _tile_layer can leave the layer's JSON sidecar file in:
\* "written" when _write_metadata (line 144) returned, which is when
\* Tiler.write_json has written the file; "none" when line 144 was not
\* reached or _write_metadata raised before the file was opened (lines
\* 158-192 of gdaltiler2d.py, json.dumps in line 54 of tiler.py);
\* "incomplete" when write_json raised after opening it (lines 55-62).
write_metadata(outcome) ==
    IF outcome = "ok" THEN {"written"}
    ELSE IF outcome = "write_metadata_raised" THEN {"none", "incomplete"}
    ELSE {"none"}

NoResult == [layer_name |-> "", success |-> FALSE, messages |-> <<>>]

\* Tiler.__init__(workers)
TilerInit(w, avail) ==
    /\ pc = "module"
    /\ workers' = w
    /\ IF Truthy(w)
       THEN /\ config' = refresh(config, cpu, w, None, avail).cfg
            /\ lastRefresh' = [pool_size |-> w, total_mem_bytes |-> None,
                               called |-> TRUE]
       ELSE UNCHANGED <<config, lastRefresh>>
    /\ pc' = "constructed"
    /\ UNCHANGED <<cpu, layers, uniq, poolSize, nextDispatch, task, result,
                   dispatched, processed, fate, metadata, cacheMax, outqueue,
                   skipped_layers, log, study_area>>

\* _create_pool that ignores the worker count given to the constructor.
create_pool_ignoring_workers(w, cfg) == cfg.PROCESS_POOL_SIZE

\* Tiler._create_pool: the number of processes of the pool.
create_pool(w, cfg) == IF Truthy(w) THEN w ELSE cfg.PROCESS_POOL_SIZE

\* GdalTiler2D.tile(layers), lines 47-66: refresh the limits when there are
\* fewer layers than processors, drop the duplicates and create the pool.
\* refresh(0) raises out of tile() before anything else is done.
TileBegin(ls, avail) ==
    /\ pc = "constructed"
    /\ layers' = ls
    /\ LET r == IF cpu > Len(ls)
                THEN refresh(config, cpu, Len(ls), None, avail)
                ELSE [raised |-> FALSE, cfg |-> config]
       IN  /\ config' = r.cfg
           /\ lastRefresh' = IF cpu > Len(ls)
                             THEN [pool_size |-> Len(ls),
                                   total_mem_bytes |-> None, called |-> TRUE]
                             ELSE lastRefresh
           /\ IF r.raised
              THEN /\ pc' = "raised"
                   /\ UNCHANGED <<uniq, poolSize, nextDispatch, task, result,
                                  dispatched, processed, fate, metadata, cacheMax>>
              ELSE LET u == remove_duplicates(ls)
                   IN  /\ pc' = "dispatch"
                       /\ uniq' = u
                       /\ poolSize' = create_pool(workers, r.cfg)
                       /\ nextDispatch' = 1
                       /\ task' = [i \in 1..Len(u) |-> "new"]
                       /\ result' = [i \in 1..Len(u) |-> NoResult]
                       /\ dispatched' = [i \in 1..Len(u) |-> 0]
                       /\ processed' = [i \in 1..Len(u) |-> 0]
                       /\ fate' = [i \in 1..Len(u) |-> "none"]
                       /\ metadata' = [i \in 1..Len(u) |-> "none"]
                       /\ cacheMax' = [i \in 1..Len(u) |-> None]
    /\ skipped_layers' = <<>>
    /\ UNCHANGED <<cpu, workers, outqueue, log, study_area>>

\* One turn of the loop of lines 67-68: pool.apply_async(_tile_layer, (i,)).
Dispatch ==
    /\ pc = "dispatch"
    /\ nextDispatch <= Len(uniq)
    /\ task' = [task EXCEPT ![nextDispatch] = "queued"]
    /\ dispatched' = [dispatched EXCEPT ![nextDispatch] = @ + 1]
    /\ nextDispatch' = nextDispatch + 1
    /\ UNCHANGED <<configVars, pc, workers, layers, uniq, poolSize, result,
                   processed, fate, metadata, cacheMax, outqueue, skipped_layers, log,
                   study_area>>

\* Lines 70-71: the loop is over; pool.close() and pool.join() begin.
PoolClose ==
    /\ pc = "dispatch"
    /\ nextDispatch > Len(uniq)
    /\ pc' = "join"
    /\ UNCHANGED <<configVars, workers, layers, uniq, poolSize, nextDispatch,
                   task, result, dispatched, processed, fate, metadata, cacheMax,
                   outqueue, skipped_layers, log, study_area>>

\* A free pool process takes the oldest queued task.
WorkerStart(i) ==
    /\ pc \in {"dispatch", "join"}
    /\ i \in DOMAIN task
    /\ task[i] = "queued"
    /\ \A j \in DOMAIN task : j < i => task[j] # "queued"
    /\ Cardinality({j \in DOMAIN task : task[j] = "running"}) < poolSize
    /\ task' = [task EXCEPT ![i] = "running"]
    /\ processed' = [processed EXCEPT ![i] = @ + 1]
    /\ UNCHANGED <<configVars, pc, workers, layers, uniq, poolSize,
                   nextDispatch, result, dispatched, fate, metadata, cacheMax, outqueue,
                   skipped_layers, log, study_area>>

\* Lines 113-116 of _tile_layer, in a pool process: the process's copy of the
\* limits (the parent's) is refreshed when there are fewer deduplicated layers
\* than processors, and GDAL's cache is set to GDAL_MEMORY_LIMIT.
worker_cache_max(cfg, cpus, n_layers, avail) ==
    IF cpus > n_layers
    THEN refresh(cfg, cpus, n_layers, None, avail).cfg.GDAL_MEMORY_LIMIT
    ELSE cfg.GDAL_MEMORY_LIMIT

\* _tile_layer(i) runs to its return in a pool process.
TileLayer(i, outcome, layer_messages) ==
    /\ i \in DOMAIN task
    /\ task[i] = "running"
    /\ cacheMax' = [cacheMax EXCEPT
                      ![i] = worker_cache_max(config, cpu, Len(uniq), TileMem)]
    /\ fate' = [fate EXCEPT ![i] = outcome]
    /\ \E file \in write_metadata(outcome) :
           metadata' = [metadata EXCEPT ![i] = file]
    /\ result' = [result EXCEPT
                    ![i] = tile_layer(layers[uniq[i]], outcome, layer_messages)]
    /\ task' = [task EXCEPT ![i] = "returned"]
    /\ outqueue' = Append(outqueue, i)
    /\ UNCHANGED <<configVars, pc, workers, layers, uniq, poolSize,
                   nextDispatch, dispatched, processed, skipped_layers, log,
                   study_area>>

\* GdalTiler2D._handle_tile_layer_result, the callback the pool's result
\* handler runs for the oldest result.
HandleTileLayerResult ==
    /\ outqueue # <<>>
    /\ LET i == Head(outqueue)
           r == result[i]
       IN  /\ skipped_layers' = IF ~r.success
                                THEN Append(skipped_layers, r.layer_name)
                                ELSE skipped_layers
           /\ log' = log \o r.messages
           /\ task' = [task EXCEPT ![i] = "handled"]
    /\ outqueue' = Tail(outqueue)
    /\ UNCHANGED <<configVars, pc, workers, layers, uniq, poolSize,
                   nextDispatch, result, dispatched, processed, fate, metadata, cacheMax,
                   study_area>>

\* The list comprehension of lines 74-77 without its filter.
manifest_layers_unfiltered(ls, u, i, skipped) == SubSeq(u, i, Len(u))

RECURSIVE manifest_layers(_, _, _, _)
\* The list comprehension of lines 74-77 from position i on: the metadata
\* (here: the identity) of each layer whose name is not in the skipped list.
manifest_layers(ls, u, i, skipped) ==
    IF i > Len(u) THEN <<>>
    ELSE IF \E k \in DOMAIN skipped : skipped[k] = ls[u[i]]
         THEN manifest_layers(ls, u, i + 1, skipped)
         ELSE <<u[i]>> \o manifest_layers(ls, u, i + 1, skipped)

\* tile() without pool.join(): the manifest is computed as soon as the pool
\* is closed.
TileFinish_without_join ==
    /\ pc = "join"
    /\ study_area' = [written |-> TRUE,
                      layers |-> manifest_layers(layers, uniq, 1, skipped_layers)]
    /\ pc' = "done"
    /\ UNCHANGED <<configVars, workers, layers, uniq, poolSize, nextDispatch,
                   task, result, dispatched, processed, fate, metadata, cacheMax,
                   outqueue, skipped_layers, log>>

\* Lines 71-81: pool.join() returns once every task has run and its callback
\* has been called; the manifest is computed, written and returned.
TileFinish ==
    /\ pc = "join"
    /\ \A i \in DOMAIN task : task[i] = "handled"
    /\ study_area' = [written |-> TRUE,
                      layers |-> manifest_layers(layers, uniq, 1, skipped_layers)]
    /\ pc' = "done"
    /\ UNCHANGED <<configVars, workers, layers, uniq, poolSize, nextDispatch,
                   task, result, dispatched, processed, fate, metadata, cacheMax,
                   outqueue, skipped_layers, log>>

LayerLists == UNION {[1..n -> Names] : n \in 0..MaxLayers}

TileInit == ConfigLoaded(1..MaxTileCpu, {TileMem}) /\ TileIdle /\ HelpersIdle

TileStep ==
    \/ \E w \in {None} \cup (1..MaxWorkers) : TilerInit(w, TileMem)
    \/ \E ls \in LayerLists : TileBegin(ls, TileMem)
    \/ Dispatch
    \/ PoolClose
    \/ \E i \in 1..MaxLayers : WorkerStart(i)
    \/ \E i \in 1..MaxLayers, o \in Outcomes, m \in LayerMessages :
           TileLayer(i, o, m)
    \/ HandleTileLayerResult
    \/ TileFinish

TileNext ==
    TileStep /\ UNCHANGED <<chunkVars, calcVars, fitVars, resVars, rsVars,
                             layerVars>>

\* One Tiler is constructed and tile() is called on it once.
SpecTile == TileInit /\ [][TileNext]_vars


-----------------------------------------------------------------------------
(* Properties of tile() *)

\* The first occurrence of each layer name in the list given to tile().
FirstOccurrences(ls) ==
    {i \in DOMAIN ls : \A j \in 1..(i - 1) : ls[j] # ls[i]}

\* The task of input layer i has returned and reported success.
ReportedSuccess(i) ==
    \E t \in DOMAIN result :
        /\ fate[t] # "none"
        /\ result[t].layer_name = layers[i]
        /\ result[t].success

Elements(seq) == {seq[k] : k \in DOMAIN seq}

\* C1: after tile() has returned, the layers of the manifest are exactly the
\* first occurrences of each layer name whose task reported success, in input
\* order and once each; a layer whose task failed is not among them.
C1_ManifestHoldsSucceededLayers ==
    pc = "done" =>
        /\ study_area.written
        /\ Elements(study_area.layers) =
               {i \in FirstOccurrences(layers) : ReportedSuccess(i)}
        /\ \A k \in 1..(Len(study_area.layers) - 1) :
               study_area.layers[k] < study_area.layers[k + 1]

\* tile() has returned for a list with a duplicate, a failed layer and a
\* layer that got into the manifest.
C1_Witness ==
    /\ pc = "done"
    /\ Len(uniq) < Len(layers)
    /\ \E t \in DOMAIN result : ~result[t].success
    /\ study_area.layers # <<>>

\* C2: a task whose layer raised returns (layer_name, False, messages) with an
\* ERROR message; and when tile() has returned, every first occurrence of a
\* layer name has one task, dispatched once and processed once, and the
\* manifest is written, whatever happened to the other layers.
C2_LayersIndependent ==
    /\ \A t \in DOMAIN fate :
           fate[t] \in Raised =>
               /\ result[t].layer_name = layers[uniq[t]]
               /\ ~result[t].success
               /\ "ERROR" \in Elements(result[t].messages)
    /\ pc = "done" =>
           /\ Elements(uniq) = FirstOccurrences(layers)
           /\ Len(uniq) = Cardinality(FirstOccurrences(layers))
           /\ \A t \in DOMAIN task : dispatched[t] = 1 /\ processed[t] = 1
           /\ study_area.written

\* tile() has returned although one layer raised, and another layer was tiled.
C2_Witness ==
    /\ pc = "done"
    /\ \E t \in DOMAIN fate : fate[t] \in Raised
    /\ \E t \in DOMAIN fate : fate[t] = "ok" /\ uniq[t] \in Elements(study_area.layers)

\* C8: a worker count given to the constructor is refreshed into the limits at
\* construction and is the size of the pool tile() creates; without one the
\* pool has PROCESS_POOL_SIZE processes (the limits do not change once the
\* pool exists).
C8_PoolSizeIsWorkers ==
    /\ (pc = "constructed" /\ workers # None) =>
           /\ lastRefresh.called /\ lastRefresh.pool_size = workers
           /\ config.PROCESS_POOL_SIZE = workers
    /\ pc \in {"dispatch", "join", "done"} =>
           poolSize = IF workers # None THEN workers
                      ELSE config.PROCESS_POOL_SIZE

\* A pool of the size given to the constructor although tile() has refreshed
\* the limits for another size.
C8_Witness ==
    /\ pc \in {"dispatch", "join", "done"}
    /\ workers # None
    /\ config.PROCESS_POOL_SIZE # workers
    /\ poolSize = workers

\* C14: a task that has returned reports success exactly when its layer's
\* JSON sidecar was written, that is when _write_metadata returned; a layer
\* found empty before or after normalization is reported as failed with a
\* WARNING message and has no sidecar file; and nothing is written for a task
\* that has not returned.
C14_SuccessIffMetadataWritten ==
    \A t \in DOMAIN fate :
        /\ fate[t] = "none" => metadata[t] = "none"
        /\ fate[t] # "none" =>
               (result[t].success <=> metadata[t] = "written")
        /\ fate[t] \in {"empty", "normalize_none", "normalized_empty"} =>
               /\ ~result[t].success
               /\ "WARNING" \in Elements(result[t].messages)
               /\ metadata[t] = "none"

\* One task has written its layer's sidecar and reported success, another
\* found its layer empty after normalization.
C14_Witness ==
    /\ \E t \in DOMAIN fate :
           fate[t] = "ok" /\ metadata[t] = "written" /\ result[t].success
    /\ \E t \in DOMAIN fate :
           fate[t] = "normalized_empty" /\ task[t] = "handled"

\* The names of the layers whose task reported failure.
FailedNames ==
    {layers[uniq[t]] : t \in {u \in DOMAIN result : ~result[u].success}}

\* C15: a layer is dispatched at most once and no task runs or returns before
\* its dispatch; from pool.close() on every deduplicated layer has been
\* dispatched exactly once; and the manifest is written only when every
\* dispatched task has run once and returned and its result has been handled
\* by _handle_tile_layer_result, so that the skipped-layer list holds exactly
\* the layers whose task failed.
C15_DispatchProcessAggregate ==
    /\ \A t \in DOMAIN task :
           /\ dispatched[t] <= 1
           /\ processed[t] <= dispatched[t]
           /\ task[t] # "new" => dispatched[t] = 1
    /\ pc \in {"join", "done"} =>
           \A t \in DOMAIN task : dispatched[t] = 1
    /\ study_area.written =>
           /\ pc = "done"
           /\ outqueue = <<>>
           /\ \A t \in DOMAIN task :
                  /\ task[t] = "handled"
                  /\ dispatched[t] = 1 /\ processed[t] = 1
                  /\ fate[t] # "none"
           /\ Elements(skipped_layers) = FailedNames
           /\ Len(skipped_layers) = Cardinality(FailedNames)

\* tile() has returned a manifest for two layers, one of which failed and
\* is in the skipped-layer list.
C15_Witness ==
    /\ study_area.written
    /\ Len(uniq) = 2
    /\ Len(skipped_layers) = 1
    /\ Len(study_area.layers) = 1

-----------------------------------------------------------------------------
(* config.refresh called any number of times *)

ConfigNext ==
    \E p \in {None} \cup (1..MaxPool), m \in {None} \cup (0..MaxMem),
       avail \in 0..MaxMem :
        /\ Refresh(p, m, avail)
        /\ UNCHANGED <<tileVars, chunkVars, calcVars, fitVars, resVars, rsVars,
                       layerVars>>

InitConfig == ConfigLoaded(1..MaxCpu, 0..MaxMem) /\ TileIdle /\ HelpersIdle

SpecConfig == InitConfig /\ [][ConfigNext]_vars

\* C7 as stated: the limits are nested at module load and after every
\* refresh, and TILER_MEMORY_LIMIT is the total_mem_bytes of the last refresh
\* whenever one was given.
C7_AsStated ==
    /\ config.GDAL_THREADS = Min(config.PROCESS_POOL_SIZE, 4)
    /\ config.GDAL_THREADS <= 4
    /\ config.PROCESS_POOL_SIZE * config.PROCESS_MEMORY_LIMIT
           <= config.TILER_MEMORY_LIMIT
    /\ config.GDAL_THREADS * config.GDAL_MEMORY_LIMIT
           <= config.PROCESS_MEMORY_LIMIT
    /\ (lastRefresh.called /\ lastRefresh.total_mem_bytes # None) =>
           config.TILER_MEMORY_LIMIT = lastRefresh.total_mem_bytes

\* C7 (amended): the limits are nested at module load and after every refresh
\* with a pool size of at least 1, and TILER_MEMORY_LIMIT is the
\* total_mem_bytes of the last refresh whenever a non-zero one was given.
C7_LimitsNested ==
    /\ config.GDAL_THREADS = Min(config.PROCESS_POOL_SIZE, 4)
    /\ config.GDAL_THREADS <= 4
    /\ config.PROCESS_POOL_SIZE * config.PROCESS_MEMORY_LIMIT
           <= config.TILER_MEMORY_LIMIT
    /\ config.GDAL_THREADS * config.GDAL_MEMORY_LIMIT
           <= config.PROCESS_MEMORY_LIMIT
    /\ (lastRefresh.called /\ Truthy(lastRefresh.total_mem_bytes)) =>
           config.TILER_MEMORY_LIMIT = lastRefresh.total_mem_bytes

\* A refresh with a total memory that does not divide evenly among several
\* processes and their GDAL threads.
C7_Witness ==
    /\ lastRefresh.called
    /\ lastRefresh.pool_size > 1
    /\ lastRefresh.total_mem_bytes > 0
    /\ config.PROCESS_POOL_SIZE * config.PROCESS_MEMORY_LIMIT
           < config.TILER_MEMORY_LIMIT
    /\ config.GDAL_MEMORY_LIMIT > 0

-----------------------------------------------------------------------------
(* chunk on its own *)

InitChunk ==
    /\ LayersIdle
    /\ ConfigLoaded({1}, {TileMem}) /\ TileIdle /\ CalcIdle /\ FitIdle /\ ResIdle
    /\ RsIdle
    /\ chunkArgs \in [width : 0..MaxSide, height : 0..MaxSide,
                      chunk_size : 1..MaxChunk]
    /\ yielded = <<>>
    /\ chunkDone = FALSE

ChunkNext ==
    /\ ChunkYield \/ ChunkStop
    /\ UNCHANGED <<configVars, tileVars, calcVars, fitVars, resVars, rsVars>>
    /\ UNCHANGED layerVars

SpecChunk == InitChunk /\ [][ChunkNext]_vars

\* The chunk c holds the pixel p.
InChunk(p, c) ==
    /\ c[1] <= p[1] /\ p[1] < c[1] + c[3]
    /\ c[2] <= p[2] /\ p[2] < c[2] + c[4]

\* C9: the chunks yielded are pairwise disjoint, lie inside the raster, have
\* sides between 1 and chunk_size and come row by row (y outer, x inner); once
\* the generator is exhausted every pixel is in exactly one chunk, and a
\* raster of zero width or height has yielded nothing.
C9_ChunksPartitionRaster ==
    LET w  == chunkArgs.width
        h  == chunkArgs.height
        cs == chunkArgs.chunk_size
    IN  /\ \A k \in DOMAIN yielded :
               LET c == yielded[k]
               IN  /\ 0 <= c[1] /\ c[1] + c[3] <= w
                   /\ 0 <= c[2] /\ c[2] + c[4] <= h
                   /\ 1 <= c[3] /\ c[3] <= cs
                   /\ 1 <= c[4] /\ c[4] <= cs
        /\ \A j, k \in DOMAIN yielded :
               j < k =>
                   /\ ~ \E p \in Pixels(w, h) :
                          InChunk(p, yielded[j]) /\ InChunk(p, yielded[k])
                   /\ \/ yielded[j][2] < yielded[k][2]
                      \/ /\ yielded[j][2] = yielded[k][2]
                         /\ yielded[j][1] < yielded[k][1]
        /\ chunkDone =>
               \A p \in Pixels(w, h) :
                   Cardinality({k \in DOMAIN yielded : InChunk(p, yielded[k])}) = 1
        /\ (w = 0 \/ h = 0) => yielded = <<>>

\* A raster cut into several rows and columns of chunks, the last of each
\* smaller than chunk_size.
C9_Witness ==
    /\ chunkDone
    /\ Len(yielded) >= 4
    /\ chunkArgs.width % chunkArgs.chunk_size # 0
    /\ chunkArgs.height % chunkArgs.chunk_size # 0

(* calc on its own *)

Values == 0..2                 \* pixel values
\* Rasters of a size, with a nodata value or none; the pixels follow one of a
\* few patterns.
PatternRasters(width, height, modulus) ==
    {[width |-> width, height |-> height, nodata |-> nd,
      px |-> [p \in Pixels(width, height) |->
                 (p[1] + 2 * p[2] + seed) % modulus]] :
        nd \in {None, 0}, seed \in 0..(modulus - 1)}

\* The two uses RasterLayer._rasterize makes of calc: flattening one raster
\* (nodata_value=0) and masking a raster by a 0/1 mask of the same extent
\* (nodata_value=original_nodata).
CalcCalls ==
    UNION {
        {[paths |-> <<r>>,
          fn |-> [name |-> "flatten", original_nodata |-> 0],
          nodata_value |-> 0, chunk_size |-> cs] :
            r \in PatternRasters(w, h, 3), cs \in 1..MaxChunk}
        \cup
        {[paths |-> <<r, m>>,
          fn |-> [name |-> "mask", original_nodata |-> 0],
          nodata_value |-> r.nodata, chunk_size |-> cs] :
            r \in PatternRasters(w, h, 3), m \in PatternRasters(w, h, 2),
            cs \in 1..MaxChunk} :
        w \in 1..MaxCalcSide, h \in 1..MaxCalcSide}

InitCalc ==
    /\ LayersIdle
    /\ ConfigLoaded({1}, {TileMem}) /\ TileIdle /\ ChunkIdle /\ FitIdle /\ ResIdle
    /\ RsIdle
    /\ calcArgs \in CalcCalls
    /\ calcPc = "start"
    /\ calcOut = NoRaster
    /\ calcPos = 0
    /\ calcWrites = [p \in Pixels(calcArgs.paths[1].width,
                                  calcArgs.paths[1].height) |-> 0]

CalcNext ==
    /\ CalcBlankCopy \/ CalcChunk \/ CalcReturn
    /\ UNCHANGED <<configVars, tileVars, chunkVars, fitVars, resVars, rsVars>>
    /\ UNCHANGED layerVars

SpecCalc == InitCalc /\ [][CalcNext]_vars

\* The value calc_fn gives for pixel p of the inputs.
Calculated(p) ==
    IF Len(calcArgs.paths) = 1
    THEN calc_fn(calcArgs.fn, calcArgs.paths[1].px[p])
    ELSE calc_fn(calcArgs.fn, [i \in DOMAIN calcArgs.paths |->
                                  calcArgs.paths[i].px[p]])

\* C10: calc never writes a pixel twice, and when it returns the output has
\* the extent of the first input and every pixel of it has been written once
\* and holds the value calc_fn gives for that pixel of the inputs.
C10_CalcWritesEveryPixelOnce ==
    /\ \A p \in DOMAIN calcWrites : calcWrites[p] <= 1
    /\ calcPc = "done" =>
           /\ calcOut.width = calcArgs.paths[1].width
           /\ calcOut.height = calcArgs.paths[1].height
           /\ DOMAIN calcOut.px = DOMAIN calcArgs.paths[1].px
           /\ \A p \in DOMAIN calcOut.px :
                  calcWrites[p] = 1 /\ calcOut.px[p] = Calculated(p)

\* calc has returned after several chunks of two inputs, with a pixel that
\* differs from the blank copy's fill.
C10_Witness ==
    /\ calcPc = "done"
    /\ calcPos >= 4
    /\ Len(calcArgs.paths) = 2
    /\ \E p \in DOMAIN calcOut.px : calcOut.px[p] # calcOut.nodata

-----------------------------------------------------------------------------
(* best_fit_data_type on its own *)

\* The bounds of the ranges: the integers around the limits of the types.
FitBounds ==
    {(-2147483647) - 1, -2147483647, -32769, -32768, -1, 0, 1, 254, 255, 256,
     32766, 32767, 32768, 65534, 65535, 65536, 2147483646, 2147483647}
FitNumbers == {Number(n, half) : n \in FitBounds, half \in BOOLEAN}
NumberLessEq(x, y) == x.n < y.n \/ (x.n = y.n /\ (y.half \/ ~x.half))

InitFit ==
    /\ LayersIdle
    /\ ConfigLoaded({1}, {TileMem}) /\ TileIdle /\ ChunkIdle /\ CalcIdle
    /\ ResIdle /\ RsIdle
    /\ fitArgs \in {a \in [range : FitNumbers \X FitNumbers,
                           allow_float : BOOLEAN] :
                       NumberLessEq(a.range[1], a.range[2])}
    /\ fitOut = NoType

FitNext ==
    /\ BestFit
    /\ UNCHANGED <<configVars, tileVars, chunkVars, calcVars, resVars, rsVars>>
    /\ UNCHANGED layerVars

SpecFit == InitFit /\ [][FitNext]_vars

\* The integer types in the order of the claim.
TypeOrder == <<"Byte", "Int16", "UInt16", "Int32", "UInt32">>

\* The value range of the integer type holds min and max.  (Every number of
\* the model is below the maximum of UInt32, 4294967295.)
Holds(type, range) ==
    IF type = "Byte"
    THEN GreaterEq(range[1], 0) /\ LessEq(range[2], 255)
    ELSE IF type = "Int16"
    THEN GreaterEq(range[1], -32768) /\ LessEq(range[2], 32767)
    ELSE IF type = "UInt16"
    THEN GreaterEq(range[1], 0) /\ LessEq(range[2], 65535)
    ELSE IF type = "Int32"
    THEN GreaterEq(range[1], (-2147483647) - 1) /\ LessEq(range[2], 2147483647)
    ELSE IF type = "UInt32"
    THEN GreaterEq(range[1], 0)
    ELSE FALSE

\* C4: for an integer range, the type returned holds min and max and no type
\* earlier in the order Byte, Int16, UInt16, Int32, UInt32 does; a range with
\* a non-integer bound gives Float32 when allow_float is true.
C4_SmallestTypeThatFits ==
    fitOut # NoType =>
        IF IsInteger(fitArgs.range[1]) /\ IsInteger(fitArgs.range[2])
        THEN \E k \in DOMAIN TypeOrder :
                 /\ fitOut = TypeOrder[k]
                 /\ Holds(TypeOrder[k], fitArgs.range)
                 /\ \A j \in 1..(k - 1) : ~Holds(TypeOrder[j], fitArgs.range)
        ELSE fitArgs.allow_float => fitOut = "Float32"

-----------------------------------------------------------------------------
(* the pixel size of the output of RasterLayer._rasterize *)

BoundingBoxes == [srs : SRSs, pixel_size : 1..MaxPixel]

InitRes ==
    /\ LayersIdle
    /\ ConfigLoaded({1}, {TileMem}) /\ TileIdle /\ ChunkIdle /\ CalcIdle
    /\ FitIdle /\ RsIdle
    /\ ResIdle

ResNext ==
    /\ \/ \E srs \in SRSs, min_pixel_size \in 1..MaxPixel,
             requested_pixel_size \in 1..MaxPixel, block_extent \in 1..MaxBlock :
              NearestDivisibleResolution(srs, min_pixel_size,
                                         requested_pixel_size, block_extent)
       \/ \E bbox \in BoundingBoxes, block_extent \in 1..MaxBlock,
             use_bbox_res \in BOOLEAN :
              TileLayerNormalize(bbox, block_extent, use_bbox_res)
    /\ UNCHANGED <<configVars, tileVars, chunkVars, calcVars, fitVars, rsVars>>
    /\ UNCHANGED layerVars

SpecRes == InitRes /\ [][ResNext]_vars

Abs(x) == IF x < 0 THEN -x ELSE x

\* k * min_pixel_size is a positive multiple of min_pixel_size nearest to
\* requested_pixel_size.
NearestMultiple(k, min_pixel_size, requested_pixel_size) ==
    /\ k >= 1
    /\ \A j \in 1..(MaxPixel + 1) :
           Abs(k * min_pixel_size - requested_pixel_size)
               <= Abs(j * min_pixel_size - requested_pixel_size)

\* C5: for SRS 4326, _get_nearest_divisible_resolution returns the positive
\* multiple of min_pixel_size nearest to requested_pixel_size, capped at
\* block_extent; the result is greater than 0 and at most block_extent.
C5_NearestMultipleCapped ==
    (resCall.kind = "nearest" /\ resCall.srs = 4326) =>
        /\ resOut.pixel_size > 0
        /\ resOut.pixel_size <= resCall.block_extent
        /\ \E k \in 1..(MaxPixel + 1) :
               /\ NearestMultiple(k, resCall.min_pixel_size,
                                  resCall.requested_pixel_size)
               /\ resOut.pixel_size =
                      Min(k * resCall.min_pixel_size, resCall.block_extent)

-----------------------------------------------------------------------------
(* the resampling of RasterLayer._rasterize *)

\* Rasters of at most two rows with any values for their pixels.
SourceSizes ==
    {wh \in (1..MaxSrcWidth) \X (1..2) : wh[1] * wh[2] <= MaxSrcPixels}
SourceRasters ==
    UNION {{[width |-> wh[1], height |-> wh[2], nodata |-> nd, px |-> f] :
               f \in [Pixels(wh[1], wh[2]) -> 0..3], nd \in {None, 0}} :
           wh \in SourceSizes}

\* The layers: a raster with a nodata value, a raster without one that the
\* layer is given one for, and a raster without any.
SourceLayers ==
    {l \in [raster : SourceRasters, nodata_value : {None, 0},
            factor : 2..MaxFactor] :
        l.raster.nodata = None \/ l.nodata_value = None}

InitRs ==
    /\ LayersIdle
    /\ ConfigLoaded({1}, {TileMem}) /\ TileIdle /\ ChunkIdle /\ CalcIdle
    /\ FitIdle /\ ResIdle
    /\ rsLayer \in SourceLayers
    /\ rsPc = "start"
    /\ rsFlat = NoRaster
    /\ rsMask = NoRaster
    /\ rsWarp = NoRaster

RsNext ==
    /\ RasterizeFlatten \/ RasterizeWarpMask \/ RasterizeWarp \/ RasterizeMask
    /\ UNCHANGED <<configVars, tileVars, chunkVars, calcVars, fitVars, resVars>>
    /\ UNCHANGED layerVars

SpecRs == InitRs /\ [][RsNext]_vars

\* The source pixels of output pixel P that are nodata, and those that are not.
NodataPixels(P) ==
    {p \in Contributing(rsLayer.raster, rsLayer.factor, P) :
        rsLayer.raster.px[p] = original_nodata(rsLayer)}
DataPixels(P) ==
    {p \in Contributing(rsLayer.raster, rsLayer.factor, P) :
        rsLayer.raster.px[p] # original_nodata(rsLayer)}

\* C3: for a layer with a nodata value, a pixel of the masked raster is nodata
\* only if at least as many of its source pixels are nodata as are data, and
\* holds data only if at least as many are data as are nodata, and then a most
\* frequent one of the data values: where the nodata pixels are the majority
\* the pixel is nodata, where the data pixels are the majority it is their
\* most frequent value.
C3_MaskedMajorityResample ==
    (rsPc = "done" /\ original_nodata(rsLayer) # None) =>
        \A P \in DOMAIN rsWarp.px :
            IF rsWarp.px[P] = original_nodata(rsLayer)
            THEN Cardinality(NodataPixels(P)) >= Cardinality(DataPixels(P))
            ELSE /\ Cardinality(DataPixels(P)) >= Cardinality(NodataPixels(P))
                 /\ rsWarp.px[P] \in Modes(rsLayer.raster, DataPixels(P))

\* The second error of the docstring is avoided: a pixel whose nodata pixels
\* outnumber each single data value, but not the data pixels together, holds
\* data.
C3_Witness ==
    /\ rsPc = "done"
    /\ original_nodata(rsLayer) # None
    /\ \E P \in DOMAIN rsWarp.px :
           /\ Cardinality(DataPixels(P)) > Cardinality(NodataPixels(P))
           /\ \A p \in DataPixels(P) :
                  Cardinality({q \in DataPixels(P) :
                      rsLayer.raster.px[q] = rsLayer.raster.px[p]})
                      < Cardinality(NodataPixels(P))
           /\ rsWarp.px[P] # original_nodata(rsLayer)

-----------------------------------------------------------------------------
(* blank_copy on its own *)

MaxBlankSide == 2       \* the source rasters are at most this wide and high
OutputPaths == {1, 2}   \* the files blank_copy may be told to write

\* The sources: rasters of data with or without a nodata value.
BlankSources ==
    UNION {{[width |-> w, height |-> h, nodata |-> nd,
             px |-> [p \in Pixels(w, h) |-> (p[1] + 2 * p[2] + seed) % 3]] :
               nd \in {None, 0, 2}, seed \in 0..2} :
           w \in 1..MaxBlankSide, h \in 1..MaxBlankSide}

InitBlank ==
    /\ ConfigLoaded({1}, {TileMem}) /\ TileIdle
    /\ ChunkIdle /\ CalcIdle /\ FitIdle /\ ResIdle /\ RsIdle
    /\ DummyIdle /\ OutIdle
    /\ blankArgs \in [path : BlankSources, output_path : OutputPaths,
                      nodata_value : {None, 0, 1}, chunk_size : 1..MaxChunk]
    /\ blankOut = NoBlank

BlankNext ==
    /\ BlankCopy
    /\ UNCHANGED <<configVars, tileVars, chunkVars, calcVars, fitVars, resVars,
                   rsVars, dummyVars, outVars>>

SpecBlank == InitBlank /\ [][BlankNext]_vars

\* C11: when blank_copy has returned, the output has the extent of the
\* source, its nodata value is the nodata_value argument if one was given
\* (0 included) and the source's otherwise, and every pixel of it holds that
\* nodata value.
C11_BlankCopyIsAllNodata ==
    (blankOut.called /\ ~blankOut.raised) =>
        /\ blankOut.raster.width = blankArgs.path.width
        /\ blankOut.raster.height = blankArgs.path.height
        /\ DOMAIN blankOut.raster.px = DOMAIN blankArgs.path.px
        /\ blankOut.raster.nodata =
               IF blankArgs.nodata_value # None THEN blankArgs.nodata_value
               ELSE blankArgs.path.nodata
        /\ \A p \in DOMAIN blankOut.raster.px :
               blankOut.raster.px[p] = blankOut.raster.nodata

\* blank_copy has returned for a nodata_value of 0 and a source of several
\* chunks that has another nodata value and a pixel that is not 0.
C11_Witness ==
    /\ blankOut.called /\ ~blankOut.raised
    /\ blankArgs.nodata_value = 0
    /\ blankArgs.path.nodata = 2
    /\ blankArgs.chunk_size = 1
    /\ blankArgs.path.width * blankArgs.path.height >= 4
    /\ \E p \in DOMAIN blankArgs.path.px : blankArgs.path.px[p] # 0

\* C12: when blank_copy has returned, the value it returned is the path of
\* the blank copy, output_path.
C12_ReturnsOutputPath ==
    (blankOut.called /\ ~blankOut.raised) =>
        blankOut.returned = blankArgs.output_path

-----------------------------------------------------------------------------
(* DummyLayer on its own *)

MaxDummySide == 2       \* the bounds are at most this many units a side

\* The constructor's arguments and those of _rasterize; the bounds
\* (ulx, lry, lrx, uly) are at least one pixel a side.
DummyCalls ==
    {a \in [value : {1}, nodata_value : {None, 0, 1, 254},
            data_type : {NoneType, GDT_Unknown} \cup DataTypes,
            min_pixel_size : 1..2, requested_pixel_size : {None, 1, 2},
            bounds : {<<0, -h, w, 0>> : w \in 1..MaxDummySide,
                                        h \in 1..MaxDummySide}] :
        LET pixel_size == IF a.requested_pixel_size # None
                          THEN a.requested_pixel_size ELSE a.min_pixel_size
        IN  a.bounds[3] >= pixel_size /\ -a.bounds[2] >= pixel_size}

InitDummy ==
    /\ ConfigLoaded({1}, {TileMem}) /\ TileIdle
    /\ ChunkIdle /\ CalcIdle /\ FitIdle /\ ResIdle /\ RsIdle
    /\ BlankIdle /\ OutIdle
    /\ dummyArgs \in DummyCalls
    /\ dummyLayer = NoDummy
    /\ dummyOut = NoRaster

DummyNext ==
    /\ DummyInit \/ DummyRasterize
    /\ UNCHANGED <<configVars, tileVars, chunkVars, calcVars, fitVars, resVars,
                   rsVars, blankVars, outVars>>

SpecDummy == InitDummy /\ [][DummyNext]_vars

\* C13: the raster written by DummyLayer._rasterize has the nodata_value
\* given to the constructor whenever one was given (0 included), and
\* best_nodata_value of the layer's data type only when none was given.
C13_NodataValueOverrides ==
    dummyOut # NoRaster =>
        dummyOut.nodata =
            IF dummyArgs.nodata_value # None THEN dummyArgs.nodata_value
            ELSE best_nodata_value(dummyLayer._data_type)

-----------------------------------------------------------------------------
(* The output stage of RasterLayer._rasterize on its own *)

MaxOutSide == 2         \* the rasters at warp_path are at most this a side

OutValues == <<0, 1, 2, 300>>       \* pixel values
OutKeys == {1, 2}                   \* pixel values of the attribute tables
OutRows == {<<"x">>, <<"">>}        \* a row with a value, a row with an empty

\* The rasters at warp_path.
OutRasters ==
    UNION {{[width |-> w, height |-> h, nodata |-> nd,
             px |-> [p \in Pixels(w, h) |->
                        OutValues[((p[1] + 2 * p[2] + seed) % 4) + 1]]] :
               nd \in {None, 0}, seed \in 0..3} :
           w \in 1..MaxOutSide, h \in 1..MaxOutSide}

\* The attribute tables: None or {} (no keys), or some keys with their rows.
OutTables == UNION {[keys -> OutRows] : keys \in SUBSET OutKeys}

\* The data types drawn hold every pixel value drawn, so that the conversion
\* to the output type changes no value.
InitOut ==
    /\ ConfigLoaded({1}, {TileMem}) /\ TileIdle
    /\ ChunkIdle /\ CalcIdle /\ FitIdle /\ ResIdle /\ RsIdle
    /\ BlankIdle /\ DummyIdle
    /\ outArgs \in [attribute_table : OutTables, nodata_value : {None, 0, 7},
                    layer_data_type : {NoneType, "Int16"},
                    allow_nulls : BOOLEAN,
                    data_type : {NoneType, "Int32"},
                    source_type : {"Byte", "Float32"},
                    warp : OutRasters]
    /\ outLayer = NoLayer
    /\ outWarp = NoWarp
    /\ outRaster = NoRaster

OutNext ==
    /\ RasterLayerInit \/ RasterizeOutput
    /\ UNCHANGED <<configVars, tileVars, chunkVars, calcVars, fitVars, resVars,
                   rsVars, blankVars, dummyVars>>

SpecOut == InitOut /\ [][OutNext]_vars

\* The keys of the attribute table given to the layer that the layer keeps:
\* all of them with allow_nulls, those of the rows without an empty value
\* otherwise.
KeptKeys ==
    IF outArgs.allow_nulls THEN DOMAIN outArgs.attribute_table
    ELSE {k \in DOMAIN outArgs.attribute_table :
             no_empty_values(outArgs.attribute_table[k])}

\* C16: after _rasterize, if the layer was given an attribute table, each
\* pixel of the output whose value gdal.Warp wrote is a key the layer keeps
\* is unchanged and every other pixel is the layer's nodata value; with
\* allow_nulls false the keys kept are those of the rows without an empty
\* value; without an attribute table the raster is as gdal.Warp wrote it.
C16_DropsValuesLeftOut ==
    outWarp.called =>
        IF DOMAIN outArgs.attribute_table # {}
        THEN /\ DOMAIN outRaster.px = DOMAIN outWarp.raster.px
             /\ \A p \in DOMAIN outRaster.px :
                    outRaster.px[p] =
                        IF outWarp.raster.px[p] \in KeptKeys
                        THEN outWarp.raster.px[p]
                        ELSE outLayer._nodata_value
        ELSE outRaster = outWarp.raster

\* The output type the claim names for the call.
ChosenType ==
    IF outArgs.data_type # NoneType THEN outArgs.data_type
    ELSE IF outArgs.layer_data_type # NoneType THEN outArgs.layer_data_type
    ELSE IF outArgs.source_type = "Float32" THEN "Float32"
    ELSE LET data == {outArgs.warp.px[p] : p \in DOMAIN outArgs.warp.px}
                         \ {outArgs.warp.nodata}
             lo == IF data = {} THEN 0 ELSE SetMin(data)
             hi == IF data = {} THEN 0 ELSE SetMax(data)
         IN  best_fit_data_type(<<Number(lo, FALSE), Number(hi, FALSE)>>,
                                TRUE)

\* C17: the output of _rasterize has the data_type argument if one was given,
\* else the layer's data type override, else Float32 for a float source, else
\* the best-fit type of the minimum and maximum of the raster at warp_path;
\* and its nodata value is the layer's nodata override if one was given
\* (0 included), else best_nodata_value of that type.
C17_OutputTypeAndNodata ==
    outWarp.called =>
        /\ outWarp.outputType = ChosenType
        /\ outWarp.dstNodata =
               IF outArgs.nodata_value # None THEN outArgs.nodata_value
               ELSE best_nodata_value(ChosenType)
        /\ outRaster.nodata = outWarp.dstNodata
        /\ outLayer._nodata_value = outWarp.dstNodata

\* _rasterize has run without a type or a nodata value given, on an integer
\* source whose resampled raster does not fit a Byte.
C17_Witness ==
    /\ outWarp.called
    /\ outArgs.data_type = NoneType /\ outArgs.layer_data_type = NoneType
    /\ outArgs.source_type = "Byte"
    /\ outArgs.nodata_value = None
    /\ outWarp.outputType = "Int16"
    /\ outRaster.nodata = 32767

====
